---------------------------- MODULE Spec2Model ----------------------------
(***************************************************************************)
(* A model of the three stages of the retrieval pipeline:                  *)
(*   Preprocess/build_json.py   the document builder,                      *)
(*   Preprocess/indexing.py     the indexer,                               *)
(*   Model/llm_generate.py      the query / answer generator.              *)
(* A Python str is a sequence of one-character strings, so that split,     *)
(* strip, join and indexing are computed as Python computes them.          *)
(***************************************************************************)
EXTENDS Integers, Sequences, FiniteSets

VARIABLES
    \* ---- document builder (build_json.py)
    bproc,        \* the procedure being run: "finance", "insurance", "faq"
    bstatus,      \* "running" while the directory loop runs, "written" after json.dump
    seen,         \* directory entries / FAQ sources already iterated over
    documents,    \* the procedure's local list `documents`
    curFile,      \* the contents last read by build_finance_json (f.read())
    jsonOut,      \* the JSON file written at the end (NoFile before)
    \* ---- indexer (indexing.py)
    chunkFiles,   \* ../documents/<category>.json: missing, not JSON, or a chunk list
    collection,   \* the vector collection "quickstart": a sequence of records
    embeddings,   \* the local list `embeddings` of the latest indexing() call
    istatus,      \* "idle", "running", "done", "crashed"
    ipos,         \* position in the __main__ sequence of indexing() calls
    runs,         \* number of indexer runs started
    dbErrors,     \* number of database errors raised so far
    lastError,    \* class of the error raised by the latest indexing() call
    log,          \* error messages printed by the current indexer run
    \* ---- query stage (llm_generate.py)
    questions,    \* the list loaded from questions_example.json
    qi,           \* index of the next question of the for loop
    final_pred,   \* final_pred["answers"]
    reranked,     \* for each appended answer, the passages the reranker returned
    outFile,      \* ../final_pred.json (NoFile before it is written)
    outWrites,    \* how many times the output file was written
    qstatus,      \* "running", "done", "crashed"
    qerror        \* what terminated the run ("none" if nothing did)

bvars == <<bproc, bstatus, seen, documents, curFile, jsonOut>>
ivars == <<chunkFiles, collection, embeddings, istatus, ipos, runs, dbErrors,
           lastError, log>>
qvars == <<questions, qi, final_pred, reranked, outFile, outWrites, qstatus, qerror>>
vars == <<bvars, ivars, qvars>>

\* A file that does not exist, and a file holding `content`.
NoFile == [exists |-> FALSE, content |-> <<>>]
FileOf(content) == [exists |-> TRUE, content |-> content]

\* ../documents/<category>.json as json.load finds it.
Missing == [state |-> "missing", docs |-> <<>>]
BadJson == [state |-> "badjson", docs |-> <<>>]
Loaded(docs) == [state |-> "ok", docs |-> docs]

Min(a, b) == IF a < b THEN a ELSE b

\* All sequences over S of length at most n.
SeqsUpTo(S, n) == UNION {[1..k -> S] : k \in 0..n}

RECURSIVE Concat(_)
Concat(ss) == IF ss = <<>> THEN <<>> ELSE Head(ss) \o Concat(Tail(ss))

(***************************************************************************)
(* Python string operations                                                *)
(***************************************************************************)
NL == "\n"

\* str.strip() strips whitespace; the alphabet's whitespace is space and newline.
IsSpace(c) == c \in {" ", NL}

RECURSIVE LStrip(_)
LStrip(s) == IF s # <<>> /\ IsSpace(Head(s)) THEN LStrip(Tail(s)) ELSE s

RECURSIVE RStrip(_)
RStrip(s) ==
    IF s # <<>> /\ IsSpace(s[Len(s)]) THEN RStrip(SubSeq(s, 1, Len(s) - 1)) ELSE s

Strip(s) == RStrip(LStrip(s))

\* `c in s` for a one-character c.
Contains(s, c) == \E i \in 1..Len(s) : s[i] = c

\* The first index at which sep occurs in s, 0 when it does not.
Find(s, sep) ==
    LET hits == {i \in 1..(Len(s) - Len(sep) + 1) : SubSeq(s, i, i + Len(sep) - 1) = sep}
    IN  IF hits = {} THEN 0 ELSE CHOOSE i \in hits : \A j \in hits : i <= j

\* s.split(sep): the pieces between the non-overlapping occurrences of sep,
\* found left to right; always at least one piece.
RECURSIVE Split(_, _)
Split(s, sep) ==
    LET i == Find(s, sep)
    IN  IF i = 0 THEN <<s>>
        ELSE <<SubSeq(s, 1, i - 1)>> \o Split(SubSeq(s, i + Len(sep), Len(s)), sep)

\* sep.join(parts)
RECURSIVE Join(_, _)
Join(parts, sep) ==
    IF parts = <<>> THEN <<>>
    ELSE IF Len(parts) = 1 THEN parts[1]
    ELSE parts[1] \o sep \o Join(Tail(parts), sep)

EndsWith(s, suffix) ==
    Len(s) >= Len(suffix) /\ SubSeq(s, Len(s) - Len(suffix) + 1, Len(s)) = suffix

SepMark == <<"[", "s", "e", "p", "]">>
BlankLine == <<NL, NL>>

(***************************************************************************)
(* build_finance_json                                                      *)
(***************************************************************************)
Chunk(text, source, category) ==
    [text |-> text, metadata |-> [source |-> source, category |-> category]]

\* source = file.split(".")[0].split("_")[0]
FinanceSource(file) == Split(Split(file, <<".">>)[1], <<"_">>)[1]

\* head = texts[0].strip()
FinanceHead(content) == Strip(Split(content, SepMark)[1])

\* The stripped, non-empty chunks of every part after the first "[sep]".
FinanceChunks(content) ==
    LET parts    == Tail(Split(content, SepMark))
        contents == [i \in 1..Len(parts) |-> Strip(parts[i])]
        pieces   == Concat([i \in 1..Len(contents) |-> Split(contents[i], BlankLine)])
        stripped == [i \in 1..Len(pieces) |-> Strip(pieces[i])]
        NonEmpty(c) == c # <<>>
    IN  SelectSeq(stripped, NonEmpty)

\* if "|" in chunk and "-" in chunk
IsTable(chunk) == Contains(chunk, "|") /\ Contains(chunk, "-")

\* The table test reduced to the pipe alone: a prose chunk holding "|" is
\* then appended twice, as text and as table.
FinanceTables_PipeOnly(content) ==
    LET HasPipe(c) == Contains(c, "|") IN SelectSeq(FinanceChunks(content), HasPipe)

FinanceTables(content) == SelectSeq(FinanceChunks(content), IsTable)

FinanceTexts(content) ==
    LET NotTable(c) == ~IsTable(c) IN SelectSeq(FinanceChunks(content), NotTable)

\* "text": head + "\n" + text
FinanceText(head, chunk) == head \o <<NL>> \o chunk

\* The records one file adds to `documents`: the prose chunks, then the tables.
FinanceRecords(file, content) ==
    LET head   == FinanceHead(content)
        source == FinanceSource(file)
        texts  == FinanceTexts(content)
        tables == FinanceTables(content)
    IN  [i \in 1..Len(texts) |-> Chunk(FinanceText(head, texts[i]), source, "finance")]
        \o [i \in 1..Len(tables) |-> Chunk(FinanceText(head, tables[i]), source, "finance")]

(***************************************************************************)
(* build_insurance_json                                                    *)
(***************************************************************************)
\* re.sub(r"^#+.*$", "", texts, flags=re.MULTILINE): every line that starts
\* with "#" is emptied ("." does not match a newline, which stays).
RemoveTitles(s) ==
    LET lines == Split(s, <<NL>>)
    IN  Join([i \in 1..Len(lines) |->
                IF lines[i] # <<>> /\ lines[i][1] = "#" THEN <<>> ELSE lines[i]],
             <<NL>>)

NoNewline(s, from, to) == \A i \in from..to : s[i] # NL

\* The end of the match of r"!\[.*?\]\(.*?\)" starting at i, 0 when there is none.
ImageEnd(s, i) ==
    IF ~(i + 1 <= Len(s) /\ s[i] = "!" /\ s[i + 1] = "[") THEN 0
    ELSE LET Ends(j) == {k \in (j + 2)..Len(s) : s[k] = ")" /\ NoNewline(s, j + 2, k - 1)}
             js == {j \in (i + 2)..(Len(s) - 1) :
                        /\ s[j] = "]" /\ s[j + 1] = "("
                        /\ NoNewline(s, i + 2, j - 1)
                        /\ Ends(j) # {}}
         IN  IF js = {} THEN 0
             ELSE LET j  == CHOOSE x \in js : \A y \in js : x <= y
                      ks == Ends(j)
                  IN  CHOOSE k \in ks : \A y \in ks : k <= y

\* re.sub(r"!\[.*?\]\(.*?\)", "", texts)
RECURSIVE RemoveImagesFrom(_, _)
RemoveImagesFrom(s, i) ==
    IF i > Len(s) THEN <<>>
    ELSE LET k == ImageEnd(s, i)
         IN  IF k = 0 THEN <<s[i]>> \o RemoveImagesFrom(s, i + 1)
             ELSE RemoveImagesFrom(s, k + 1)

RemoveImages(s) == RemoveImagesFrom(s, 1)

RECURSIVE DropNewlines(_)
DropNewlines(s) == IF s # <<>> /\ Head(s) = NL THEN DropNewlines(Tail(s)) ELSE s

\* re.sub(r"\n{2,}", "\n\n", texts): a run of two or more newlines becomes two.
RECURSIVE CompressNewlines(_)
CompressNewlines(s) ==
    IF s = <<>> THEN <<>>
    ELSE IF Len(s) >= 2 /\ s[1] = NL /\ s[2] = NL
         THEN BlankLine \o CompressNewlines(DropNewlines(s))
         ELSE <<s[1]>> \o CompressNewlines(Tail(s))

\* The paragraphs of one markdown file: texts.strip().split("\n\n") of the cleaned text.
InsuranceParagraphs(content) ==
    Split(Strip(CompressNewlines(RemoveImages(RemoveTitles(content)))), BlankLine)

InsuranceRecords(folder, content) ==
    LET paragraphs == InsuranceParagraphs(content)
    IN  [i \in 1..Len(paragraphs) |-> Chunk(paragraphs[i], folder, "insurance")]

(***************************************************************************)
(* build_faq_json                                                          *)
(***************************************************************************)
\* qa["question"] + "\n" + "\n".join(qa["answers"])
FaqText(qa) == qa.question \o <<NL>> \o Join(qa.answers, <<NL>>)

FaqRecords(source, qa_lists) ==
    [i \in 1..Len(qa_lists) |-> Chunk(FaqText(qa_lists[i]), source, "faq")]

(***************************************************************************)
(* The builder's inputs and its three procedures                           *)
(***************************************************************************)
MaxFinTokens == 2
MaxChunks == 2
MaxInsTokens == 3
MaxFolderFiles == 1
MaxAnswers == 1
MaxQa == 2

Categories == {"finance", "insurance", "faq"}

\* File names of ../finance_markdown.
FinNames == {<<"1", ".", "m", "d">>, <<"2", "_", "a", ".", "m", "d">>}

FinTokens == {<<"a">>, SepMark, BlankLine, <<"|">>, <<"-">>, <<" ">>}

\* Finance files of the documented shape: a header, "[sep]", then chunks
\* separated by blank lines, with or without a newline around the parts.
Heads == {<<"h">>}
ChunkSet == {<<"a">>, <<"|", "-">>, <<"|">>, <<"b", NL, "-">>}
Pads == {<<>>, <<NL>>}
Compose(h, cs, pad) == h \o pad \o SepMark \o pad \o Join(cs, BlankLine) \o pad

ShapedFiles ==
    {[head |-> h, chunks |-> cs, content |-> Compose(h, cs, pad)] :
        h \in Heads, cs \in SeqsUpTo(ChunkSet, MaxChunks), pad \in Pads}

FinContents ==
    {Concat(ts) : ts \in SeqsUpTo(FinTokens, MaxFinTokens)}
    \cup {f.content : f \in ShapedFiles}

\* Entries of ../insurance_markdown and the files of a folder.
InsFolders == {<<"1">>, <<"2">>}
InsNames == {<<"a", ".", "m", "d">>, <<"a", ".", "t", "x", "t">>}
InsTokens == {<<"a">>, <<NL>>, <<"#">>, <<"!", "[">>, <<"]", "(">>, <<")">>}
InsContents == {Concat(ts) : ts \in SeqsUpTo(InsTokens, MaxInsTokens)}
InsFiles == [name : InsNames, content : InsContents]

\* pid_map_content.json: source -> list of {question, answers}.
FaqSources == {<<"1">>, <<"2">>}
QaSet == [question : {<<>>, <<"q">>}, answers : SeqsUpTo({<<>>, <<"a">>}, MaxAnswers)]

InitIndexerIdle ==
    /\ chunkFiles = [c \in Categories |-> Missing]
    /\ collection = <<>>
    /\ embeddings = <<>>
    /\ istatus = "idle"
    /\ ipos = 1
    /\ runs = 0
    /\ dbErrors = 0
    /\ lastError = "none"
    /\ log = <<>>

InitQueryIdle ==
    /\ questions = <<>>
    /\ qi = 1
    /\ final_pred = <<>>
    /\ reranked = <<>>
    /\ outFile = NoFile
    /\ outWrites = 0
    /\ qstatus = "idle"
    /\ qerror = "none"

InitBuilderIdle ==
    /\ bproc = "none"
    /\ bstatus = "idle"
    /\ seen = {}
    /\ documents = <<>>
    /\ curFile = <<>>
    /\ jsonOut = NoFile

\* The state on entry to one of the builder's procedures: documents = [].
InitBuild ==
    /\ bproc \in Categories
    /\ bstatus = "running"
    /\ seen = {}
    /\ documents = <<>>
    /\ curFile = <<>>
    /\ jsonOut = NoFile
    /\ InitIndexerIdle
    /\ InitQueryIdle

InitFinance == InitBuild /\ bproc = "finance"

\* One iteration of build_finance_json's loop over os.listdir.
BuildFinanceFile ==
    /\ bproc = "finance"
    /\ bstatus = "running"
    /\ \E file \in FinNames \ seen, content \in FinContents :
          /\ curFile' = content
          /\ documents' = documents \o FinanceRecords(file, content)
          /\ seen' = seen \cup {file}
    /\ UNCHANGED <<bproc, bstatus, jsonOut, ivars, qvars>>

\* One folder of build_insurance_json's loop: a non-directory is skipped, and
\* so is every file of the folder that does not end in ".md".
InsuranceFolderRecords(folder, isdir, files) ==
    IF ~isdir THEN <<>>
    ELSE Concat([i \in 1..Len(files) |->
                    IF EndsWith(files[i].name, <<".", "m", "d">>)
                    THEN InsuranceRecords(folder, files[i].content)
                    ELSE <<>>])

BuildInsuranceFolder ==
    /\ bproc = "insurance"
    /\ bstatus = "running"
    /\ \E folder \in InsFolders \ seen, isdir \in BOOLEAN,
          files \in SeqsUpTo(InsFiles, MaxFolderFiles) :
          /\ documents' = documents \o InsuranceFolderRecords(folder, isdir, files)
          /\ seen' = seen \cup {folder}
    /\ UNCHANGED <<bproc, bstatus, curFile, jsonOut, ivars, qvars>>

\* One source of build_faq_json's loop over datas.items().
BuildFaqSource ==
    /\ bproc = "faq"
    /\ bstatus = "running"
    /\ \E source \in FaqSources \ seen, qa_lists \in SeqsUpTo(QaSet, MaxQa) :
          /\ documents' = documents \o FaqRecords(source, qa_lists)
          /\ seen' = seen \cup {source}
    /\ UNCHANGED <<bproc, bstatus, curFile, jsonOut, ivars, qvars>>

\* json.dump(documents, f) once the loop is over.
WriteJson ==
    /\ bstatus = "running"
    /\ bstatus' = "written"
    /\ jsonOut' = FileOf(documents)
    /\ UNCHANGED <<bproc, seen, documents, curFile, ivars, qvars>>

NextFinance == BuildFinanceFile \/ WriteJson
NextBuild == BuildFinanceFile \/ BuildInsuranceFolder \/ BuildFaqSource \/ WriteJson

SpecFinance == InitFinance /\ [][NextFinance]_vars
SpecBuild == InitBuild /\ [][NextBuild]_vars

(***************************************************************************)
(* indexing.py                                                             *)
(***************************************************************************)
MaxDocs == 2
MaxRuns == 2
MaxDbErrors == 1
MaxBatches == 2
MaxOff == 1
TextKinds == 7
BatchSize == 200

\* __main__: indexing("finance"); indexing("insurance"); indexing("faq")
CategoryOrder == <<"finance", "insurance", "faq">>

\* A chunk file of n records, as the builder writes it.
ChunkList(c, n) ==
    [i \in 1..n |-> Chunk(<<c, i % TextKinds>>, "1", c)]

\* embedding_model.encode(batch, task="retrieval.passage"): one vector per
\* text of the batch, a function of the text.
Encode(text) == [vec |-> text, task |-> "retrieval.passage"]

\* texts = [doc.get("text", "") for doc in docs]
Texts(docs) == [i \in 1..Len(docs) |-> docs[i].text]

\* metadatas = [doc.get("metadata", {}) for doc in docs]
Metadatas(docs) == [i \in 1..Len(docs) |-> docs[i].metadata]

\* The slice one short of the loop's step: texts[i : i + 199].
BatchTexts_ShortSlice(texts, i) ==
    SubSeq(texts, i + 1, Min(i + BatchSize - 1, Len(texts)))

\* batch_texts = texts[i : i + 200], i counted from 0
BatchTexts(texts, i) == SubSeq(texts, i + 1, Min(i + BatchSize, Len(texts)))

\* for i in range(0, len(texts), 200): embeddings.extend(encode(batch_texts))
RECURSIVE EmbedFrom(_, _)
EmbedFrom(texts, i) ==
    IF i >= Len(texts) THEN <<>>
    ELSE LET batch == BatchTexts(texts, i)
         IN  [k \in 1..Len(batch) |-> Encode(batch[k])] \o EmbedFrom(texts, i + BatchSize)

Embed(texts) == EmbedFrom(texts, 0)

\* The loop index as identifier, ids=[str(k)]: the same in every call.
FreshId_LoopIndex(coll, k) == k

\* ids=[str(uuid.uuid4())]: the identifier of the k-th record added to a
\* collection that held coll before the call; no stored record has it.
FreshId(coll, k) == Len(coll) + k

\* The record stored by chroma_collection.add(documents=[text],
\*     metadatas=[metadata], embeddings=[embedding], ids=[id])
Record(id, text, metadata, embedding) ==
    [id |-> id, document |-> text, metadata |-> metadata, embedding |-> embedding]

\* zip(texts, metadatas, embeddings) stops with its shortest argument.
ZipLen(texts, metadatas, embs) == Min(Len(texts), Min(Len(metadatas), Len(embs)))

\* The insertion loop, one add per zipped triple, stopped after `count`
\* records (all of them when no add raises).
AddAll(coll, texts, metadatas, embs, count) ==
    LET m == Min(count, ZipLen(texts, metadatas, embs))
    IN  coll \o [k \in 1..m |->
                    Record(FreshId(coll, k), texts[k], metadatas[k], embs[k])]

\* What open()/json.load raise for the file of a category.
LoadError(file) ==
    IF file.state = "missing" THEN "FileNotFoundError"
    ELSE IF file.state = "badjson" THEN "JSONDecodeError"
    ELSE "none"

\* The handler re-raising after the print instead of returning.
OnLoadError_Reraise(err) == [logged |-> TRUE, raised |-> TRUE]

\* except FileNotFoundError / json.JSONDecodeError: print(...); return
OnLoadError(err) == [logged |-> TRUE, raised |-> FALSE]

\* except chromadb.errors.ChromaDBException as e: print(...)  -- no re-raise;
\* an exception of any other class leaves indexing() uncaught and unlogged.
OnDbError(err) ==
    IF err = "ChromaDBException" THEN [logged |-> TRUE, raised |-> FALSE]
    ELSE [logged |-> FALSE, raised |-> TRUE]

\* Where a database error may strike a call that inserts n records: nowhere,
\* or at the add of record `at` (the records before it are stored).
DbFailures(n, budget) ==
    {[err |-> "none", at |-> n + 1]}
    \cup (IF budget > 0
          THEN [err : {"ChromaDBException", "OtherError"}, at : 1..n]
          ELSE {})

\* Starting the script: python indexing.py
StartRun ==
    /\ istatus \in {"idle", "done", "crashed"}
    /\ runs < MaxRuns
    /\ istatus' = "running"
    /\ ipos' = 1
    /\ runs' = runs + 1
    /\ log' = <<>>
    /\ lastError' = "none"
    /\ embeddings' = <<>>
    /\ UNCHANGED <<chunkFiles, collection, dbErrors, bvars, qvars>>

\* The status after a call of indexing() at position pos: a raised exception
\* ends the script, the last call's return ends it normally.
AfterCall(pos, raised) ==
    IF raised THEN "crashed"
    ELSE IF pos = Len(CategoryOrder) THEN "done"
    ELSE "running"

\* One call indexing(CategoryOrder[ipos]).
Indexing ==
    /\ istatus = "running"
    /\ ipos \in 1..Len(CategoryOrder)
    /\ LET c    == CategoryOrder[ipos]
           file == chunkFiles[c]
           lerr == LoadError(file)
       IN  IF lerr # "none"
           THEN LET h == OnLoadError(lerr)
                IN  /\ log' = IF h.logged THEN Append(log, <<c, lerr>>) ELSE log
                    /\ istatus' = AfterCall(ipos, h.raised)
                    /\ lastError' = lerr
                    /\ embeddings' = <<>>
                    /\ UNCHANGED <<collection, dbErrors>>
           ELSE LET texts     == Texts(file.docs)
                    metadatas == Metadatas(file.docs)
                    embs      == Embed(texts)
                IN  \E f \in DbFailures(Len(texts), MaxDbErrors - dbErrors) :
                       LET h == IF f.err = "none"
                                THEN [logged |-> FALSE, raised |-> FALSE]
                                ELSE OnDbError(f.err)
                       IN  /\ embeddings' = embs
                           /\ collection' =
                                  AddAll(collection, texts, metadatas, embs, f.at - 1)
                           /\ dbErrors' = IF f.err = "none" THEN dbErrors ELSE dbErrors + 1
                           /\ lastError' = f.err
                           /\ log' = IF h.logged THEN Append(log, <<c, f.err>>) ELSE log
                           /\ istatus' = AfterCall(ipos, h.raised)
    /\ ipos' = ipos + 1
    /\ UNCHANGED <<chunkFiles, runs, bvars, qvars>>

FileStates(c) == {Missing, BadJson} \cup {Loaded(ChunkList(c, n)) : n \in 0..MaxDocs}

InitIndex ==
    /\ chunkFiles \in {f \in [Categories -> UNION {FileStates(c) : c \in Categories}] :
                          \A c \in Categories : f[c] \in FileStates(c)}
    /\ collection = <<>>
    /\ embeddings = <<>>
    /\ istatus = "idle"
    /\ ipos = 1
    /\ runs = 0
    /\ dbErrors = 0
    /\ lastError = "none"
    /\ log = <<>>
    /\ InitBuilderIdle
    /\ InitQueryIdle

\* Chunk lists long enough to need several batches: lengths around the
\* multiples of the batch size.
BatchLens ==
    {n \in 0..(MaxBatches * BatchSize + MaxOff) :
        \E q \in 0..MaxBatches, r \in (0 - MaxOff)..MaxOff : n = q * BatchSize + r}

\* One run over a long finance file; the other two files are short.
InitBatch ==
    /\ \E n \in BatchLens :
          chunkFiles = [c \in Categories |->
                           IF c = "finance" THEN Loaded(ChunkList(c, n))
                           ELSE Loaded(ChunkList(c, 1))]
    /\ collection = <<>>
    /\ embeddings = <<>>
    /\ istatus = "idle"
    /\ ipos = 1
    /\ runs = MaxRuns - 1
    /\ dbErrors = MaxDbErrors - 1
    /\ lastError = "none"
    /\ log = <<>>
    /\ InitBuilderIdle
    /\ InitQueryIdle

NextIndex == StartRun \/ Indexing

SpecIndex == InitIndex /\ [][NextIndex]_vars
SpecBatch == InitBatch /\ [][NextIndex]_vars

(***************************************************************************)
(* llm_generate.py                                                         *)
(***************************************************************************)
MaxQuestions == 2
NResults == 30
TopN == 4

\* str(s) for a source id of a question.
StrOf(n) == <<"1", "2", "3">>[n]

\* The questions a run may be given: {qid, query, source, category}.
QuestionPool ==
    { [qid |-> 1, query |-> "q1", source |-> {1, 2}, category |-> "finance"],
      [qid |-> 2, query |-> "q2", source |-> {1}, category |-> "insurance"],
      [qid |-> 3, query |-> "q3", source |-> {2}, category |-> "finance"],
      [qid |-> 4, query |-> "q4", source |-> {3}, category |-> "faq"] }

\* The passages the collection may hold when the query stage starts.
PassagePool ==
    << Chunk(<<"w", "x", "y", "z">>, "1", "insurance"),
       Chunk(<<"c">>, "2", "finance"),
       Chunk(<<"a", "b">>, "1", "finance"),
       Chunk(<<"i">>, "2", "finance"),
       Chunk(<<"d", "e", "f", "g", "h">>, "1", "finance"),
       Chunk(<<"j", NL, "k">>, "1", "finance") >>

\* The collection as the indexer leaves it after storing the first n passages.
StoredCollection(n) ==
    LET chunks == SubSeq(PassagePool, 1, n)
    IN  AddAll(<<>>, Texts(chunks), Metadatas(chunks), Embed(Texts(chunks)), Len(chunks))

\* where={"$and": [{"category": category}, {"source": {"$in": [str(s) ...]}}]}
Where(record, category, sources) ==
    /\ record.metadata.category = category
    /\ record.metadata.source \in {StrOf(n) : n \in sources}

Matching(coll, question) ==
    {i \in 1..Len(coll) : Where(coll[i], question.category, question.source)}

\* chroma_collection.query(..., n_results=30): the nearest n_results of the
\* records that pass the filter (all of them when there are fewer); which
\* ones are nearest is the embedding model's affair.
QueryResults(coll, question) ==
    LET m == Matching(coll, question)
    IN  {c \in SUBSET m : Cardinality(c) = Min(NResults, Cardinality(m))}

\* reranker_model.rerank(query, documents, top_n=4): the top_n candidates (all
\* of them when there are fewer) in the reranker's order of relevance.
Rerankings(cands) ==
    LET n == Min(TopN, Cardinality(cands))
    IN  {r \in [1..n -> cands] : \A i, j \in 1..n : i # j => r[i] # r[j]}

\* contexts = [result["document"] for result in final_results]
Passages(coll, ranking) == [k \in 1..Len(ranking) |-> coll[ranking[k]].document]

\* contexts = "\n\n".join(contexts)
JoinContexts(passages) == Join(passages, BlankLine)

\* contexts[k] of a str: its k-th character (from 0), itself a str.
CharAt(str, k) == <<str[k + 1]>>

\* The dict appended to final_pred["answers"]; contexts is the joined string.
AnswerRecord(question, contexts, response) ==
    [qid       |-> question.qid,
     Document1 |-> CharAt(contexts, 0),
     Document2 |-> CharAt(contexts, 1),
     Document3 |-> CharAt(contexts, 2),
     Document4 |-> CharAt(contexts, 3),
     generate  |-> response]

\* contexts[3] raises IndexError on a string of fewer than four characters.
RaisesIndexError(contexts) == Len(contexts) < TopN

\* The list replaced instead of extended: final_pred["answers"] = [record].
AppendAnswer_Overwrite(answers, record) == <<record>>

\* final_pred["answers"].append(record)
AppendAnswer(answers, record) == Append(answers, record)

\* The dump indented into the loop: the file is written once an iteration is over.
LoopDone_AfterFirst(i, qs) == i > Len(qs) \/ i > 1

\* The for loop has consumed every question.
LoopDone(i, qs) == i > Len(qs)

\* The calls of one iteration that may raise.
ExternalCalls == {"embedding", "retrieval", "rerank", "chat"}
\* response["message"]["content"]: whatever the chat model answers.
Responses == {"answer"}

\* One iteration of the for loop over the questions: either one of the
\* external calls raises, or the answer record is built (which raises
\* IndexError on a short context string) and appended.
ProcessQuestion ==
    /\ qstatus = "running"
    /\ ~LoopDone(qi, questions)
    /\ \/ \E fail \in ExternalCalls :
             /\ qstatus' = "crashed"
             /\ qerror' = fail
             /\ UNCHANGED <<qi, final_pred, reranked>>
       \/ \E cands \in QueryResults(collection, questions[qi]), response \in Responses :
             \E ranking \in Rerankings(cands) :
                LET passages == Passages(collection, ranking)
                    contexts == JoinContexts(passages)
                IN  IF RaisesIndexError(contexts)
                    THEN /\ qstatus' = "crashed"
                         /\ qerror' = "IndexError"
                         /\ UNCHANGED <<qi, final_pred, reranked>>
                    ELSE /\ final_pred' =
                               AppendAnswer(final_pred,
                                   AnswerRecord(questions[qi], contexts, response))
                         /\ reranked' =
                               Append(reranked, {passages[k] : k \in 1..Len(passages)})
                         /\ qi' = qi + 1
                         /\ UNCHANGED <<qstatus, qerror>>
    /\ UNCHANGED <<questions, outFile, outWrites, collection, bvars>>
    /\ UNCHANGED <<chunkFiles, embeddings, istatus, ipos, runs, dbErrors, lastError, log>>

\* json.dump(final_pred, f) after the loop.
WriteOutput ==
    /\ qstatus = "running"
    /\ LoopDone(qi, questions)
    /\ outFile' = FileOf(final_pred)
    /\ outWrites' = outWrites + 1
    /\ qstatus' = "done"
    /\ UNCHANGED <<questions, qi, final_pred, reranked, qerror, bvars, ivars>>

InitQuery ==
    /\ questions \in SeqsUpTo(QuestionPool, MaxQuestions)
    /\ qi = 1
    /\ final_pred = <<>>
    /\ reranked = <<>>
    /\ outFile = NoFile
    /\ outWrites = 0
    /\ qstatus = "running"
    /\ qerror = "none"
    /\ \E n \in 0..Len(PassagePool) : collection = StoredCollection(n)
    /\ chunkFiles = [c \in Categories |-> Missing]
    /\ embeddings = <<>>
    /\ istatus = "idle"
    /\ ipos = 1
    /\ runs = 0
    /\ dbErrors = 0
    /\ lastError = "none"
    /\ log = <<>>
    /\ InitBuilderIdle

NextQuery == ProcessQuestion \/ WriteOutput

SpecQuery == InitQuery /\ [][NextQuery]_vars

(***************************************************************************)
(* Properties                                                              *)
(***************************************************************************)
CountIn(seq, x) == Cardinality({i \in 1..Len(seq) : seq[i] = x})

DocumentFields(answer) ==
    {answer.Document1, answer.Document2, answer.Document3, answer.Document4}

\* C1: every answer record's Document1..Document4 is the full text of one of
\* the passages the reranker returned for that record's question.
C1_DocumentsAreRerankedPassages ==
    \A i \in 1..Len(final_pred) : DocumentFields(final_pred[i]) \subseteq reranked[i]

\* C2: every chunk record a builder procedure emits has a category among
\* finance, insurance, faq and a non-empty text, whatever the input files hold.
C2_ChunkShape ==
    \A i \in 1..Len(documents) :
        /\ documents[i].metadata.category \in Categories
        /\ documents[i].text # <<>>

\* C3: after a run that completes, the output holds one answer per question,
\* in input order, the i-th answer carrying the i-th question's qid.
C3_OneAnswerPerQuestion ==
    qstatus = "done" =>
        /\ outFile.exists
        /\ outFile.content = final_pred
        /\ Len(final_pred) = Len(questions)
        /\ \A i \in 1..Len(questions) : final_pred[i].qid = questions[i].qid

C3_Witness ==
    /\ qstatus = "done"
    /\ Len(questions) = 2
    /\ questions[1].qid # questions[2].qid
    /\ Len(outFile.content) = 2

\* C4: a call of indexing() on a readable chunk file of n records leaves n
\* embeddings, the i-th the encoding of the i-th text, and, when no add
\* raises, appends exactly n records, the i-th pairing the i-th text and
\* metadata with the i-th text's embedding.
C4_BatchingOneToOne ==
    [][(/\ istatus = "running"
        /\ ipos \in 1..Len(CategoryOrder)
        /\ ipos' = ipos + 1
        /\ chunkFiles[CategoryOrder[ipos]].state = "ok")
       => LET docs == chunkFiles[CategoryOrder[ipos]].docs
              n    == Len(docs)
              base == Len(collection)
          IN  /\ Len(embeddings') = n
              /\ \A i \in 1..n : embeddings'[i] = Encode(docs[i].text)
              /\ lastError' = "none" =>
                    /\ Len(collection') = base + n
                    /\ \A i \in 1..n :
                          /\ collection'[base + i].document = docs[i].text
                          /\ collection'[base + i].metadata = docs[i].metadata
                          /\ collection'[base + i].embedding = Encode(docs[i].text)]_vars

C4_Witness ==
    /\ ipos = 2
    /\ lastError = "none"
    /\ Len(embeddings) > 2 * BatchSize
    /\ Len(embeddings) % BatchSize # 0
    /\ Len(collection) = Len(embeddings)

\* C5: for a finance file made of a header, "[sep]" and blank-line-separated
\* chunks, build_finance_json appends exactly one record per chunk, table-like
\* or prose, each record's text being the header, a newline and the chunk.
C5_OneRecordPerChunk ==
    [][(bproc = "finance" /\ seen' # seen)
       => \A f \in ShapedFiles :
             f.content = curFile' =>
                LET base     == Len(documents)
                    new      == SubSeq(documents', base + 1, Len(documents'))
                    newTexts == [i \in 1..Len(new) |-> new[i].text]
                    expected == [i \in 1..Len(f.chunks) |->
                                    f.head \o <<NL>> \o f.chunks[i]]
                IN  /\ SubSeq(documents', 1, base) = documents
                    /\ Len(new) = Len(f.chunks)
                    /\ \A i \in 1..Len(expected) :
                          CountIn(newTexts, expected[i]) = CountIn(expected, expected[i])]_vars

C5_Witness ==
    /\ bproc = "finance"
    /\ curFile = Compose(<<"h">>, << <<"|", "-">>, <<"a">> >>, <<NL>>)
    /\ Len(documents) = 2
    /\ documents[1].text = <<"h", NL, "a">>
    /\ documents[2].text = <<"h", NL, "|", "-">>

\* C6: the output file is written at most once, only after every question
\* was processed; a run that fails on a question writes no output file, and
\* the answers accumulated before the failure are in no file.
C6_OutputWrittenOnceAtEnd ==
    /\ outWrites <= 1
    /\ outFile.exists <=> outWrites = 1
    /\ outFile.exists =>
          /\ qerror = "none"
          /\ qi = Len(questions) + 1
          /\ Len(outFile.content) = Len(questions)
    /\ qstatus = "done" => outWrites = 1
    /\ qstatus = "crashed" => (qerror # "none" /\ ~outFile.exists /\ outWrites = 0)

C6_Witness ==
    /\ qstatus = "crashed"
    /\ Len(final_pred) >= 1
    /\ ~outFile.exists

\* C7: a question whose category or source ids match no indexed record gets
\* zero candidates silently: processing it raises no error of its own.
C7_NoMatchIsSilent ==
    (qstatus = "crashed" /\ Matching(collection, questions[qi]) = {})
        => qerror \in ExternalCalls

C9_DbErrorStopsRun ==
    [][(dbErrors' = dbErrors + 1 /\ lastError' = "ChromaDBException")
       => /\ log' = Append(log, <<CategoryOrder[ipos], "ChromaDBException">>)
          /\ istatus' = "crashed"]_vars

ChunkCount(docs, chunk) == CountIn(docs, chunk)

StoredCount(chunk) ==
    Cardinality({i \in 1..Len(collection) :
                    /\ collection[i].document = chunk.text
                    /\ collection[i].metadata = chunk.metadata})

\* C10: no step modifies or removes a stored record, the identifiers are
\* pairwise distinct, and after k runs that completed without a database
\* error the collection holds each chunk of each chunk file k times.
C10_AppendOnlyNotIdempotent ==
    /\ [][/\ Len(collection') >= Len(collection)
          /\ SubSeq(collection', 1, Len(collection)) = collection]_vars
    /\ [](\A i, j \in 1..Len(collection) :
              i # j => collection[i].id # collection[j].id)
    /\ []((istatus = "done" /\ dbErrors = 0) =>
             /\ \A c \in Categories :
                   \A i \in 1..Len(chunkFiles[c].docs) :
                      StoredCount(chunkFiles[c].docs[i])
                          = runs * ChunkCount(chunkFiles[c].docs, chunkFiles[c].docs[i])
             /\ Len(collection)
                   = runs * (Len(chunkFiles["finance"].docs)
                             + Len(chunkFiles["insurance"].docs)
                             + Len(chunkFiles["faq"].docs)))

C10_Witness ==
    /\ istatus = "done"
    /\ runs = 2
    /\ dbErrors = 0
    /\ Len(collection) = 2 * 3 * MaxDocs

=============================================================================
